---- MODULE Spec2Model ----
(***************************************************************************)
(* Model of "old quizzes/index.js": the POST / handler (orchestrator), the *)
(* quiz runner attemptOneQuiz, the answer prober attemptQuiz and the       *)
(* remote client calls they await.  One action is one continuation of the  *)
(* async code: it starts when the awaited call settles and runs up to the  *)
(* next await (or to the return of attemptQuiz / the HTTP response).       *)
(* JavaScript strings that the code takes apart are sequences of           *)
(* one-character strings.                                                  *)
(***************************************************************************)
EXTENDS Integers, Sequences, FiniteSets, TLC

VARIABLES
    ACCESS_TOKEN,   \* index.js:19  process-wide credential
    logs,           \* index.js:20  process-wide array returned in the 200 response
    second,         \* requests that arrived while the run was suspended
    request,        \* req.body of the request being (or last) handled
    response,       \* what res.status(..).json(..) sent for it
    pc,             \* the await the run is suspended on
    call,           \* the remote call that is outstanding
    unitIds,        \* index.js:193
    unit,           \* index.js:195  position in unitIds
    topics,         \* index.js:196
    topic,          \* index.js:202  position in topics
    done,           \* index.js:203
    quiz_Id,        \* index.js:103
    questions,      \* data.payload.questions (their ids)
    question,       \* index.js:109  position in questions
    currentScore,   \* index.js:105 (and the parameter of attemptQuiz)
    content,        \* index.js:106
    score,          \* index.js:67
    i,              \* index.js:69
    correctOption,  \* index.js:70
    remoteScore,    \* remote service: cumulative score of the attempt
    correctKey,     \* remote service: correct option of the question being probed
    credited,       \* remote service: that question's saved answer counts in the score
    regraded,       \* remote service: the score of this attempt has gone down
    console,        \* console.log lines of the run (status lines only)
    calls,          \* run-level remote calls issued for this request, in order
    passed,         \* topic ids whose completion query returned passed, in order
    failed,         \* the call whose failure reached the handler of POST /
    submitted,      \* answers submitted by the current attemptQuiz call, in order
    readbacks,      \* scores read back by the current attemptQuiz call, in order
    syncAtCall,     \* currentScore = remote score when attemptQuiz was called
    threw           \* attemptQuizApi threw in the current attemptQuiz call

procVars == <<ACCESS_TOKEN, logs, second>>
loopVars == <<unitIds, unit, topics, topic, done>>
quizVars == <<quiz_Id, questions, question, currentScore, content>>
probeVars == <<score, i, correctOption, submitted, readbacks, syncAtCall, threw>>
remoteVars == <<remoteScore, correctKey, credited, regraded>>
histVars == <<console, calls, passed, failed>>
vars == <<procVars, request, response, pc, call, loopVars, quizVars, probeVars,
          remoteVars, histVars>>

-----------------------------------------------------------------------------
(* Bounds *)

\* Largest number of questions the remote service puts in one attempt.
MaxQuestions == 2

\* The loop of attemptQuiz has no bound of its own: the model stops a probe
\* after this many submissions.
MaxTries == 5

-----------------------------------------------------------------------------
(* JavaScript values *)

NULL == "null"
UNDEFINED == "undefined"

\* index.js:68
options == <<"a", "b", "c", "d">>

\* options[i] with a zero-based index: undefined past the end of the array
OptionAt(n) == IF n < Len(options) THEN options[n + 1] ELSE UNDEFINED

\* index.js:72 and :75 both compare with currentScore + 1
IsLockedAtLeast(s, cs) == s >= cs
IsLocked(s, cs) == s = cs + 1

\* index.js:120  result.correctOption || 'Not locked'
OrNotLockedRaw(c) == c
OrNotLocked(c) == IF c \in {NULL, UNDEFINED, ""} THEN "Not locked" ELSE c

\* First position of a space in s, 0 when there is none
RECURSIVE FirstSpace(_, _)
FirstSpace(s, k) ==
    IF k > Len(s) THEN 0
    ELSE IF s[k] = " " THEN k
    ELSE FirstSpace(s, k + 1)

\* index.js:193  unitId.split(' ')
RECURSIVE Split(_)
Split(s) ==
    LET k == FirstSpace(s, 1)
    IN  IF k = 0 THEN <<s>>
        ELSE <<SubSeq(s, 1, k - 1)>> \o Split(SubSeq(s, k + 1, Len(s)))

AlphaNum == {"R", "L", "Q", "g", "a", "n", "1", "2"}
Lower(c) == CASE c = "R" -> "r" [] c = "L" -> "l" [] c = "Q" -> "q" [] OTHER -> c

\* index.js:124  topicName.replace(/[^a-z0-9]/gi, '_').toLowerCase()
Sanitize(name) ==
    [k \in 1..Len(name) |-> IF name[k] \in AlphaNum THEN Lower(name[k]) ELSE "_"]

-----------------------------------------------------------------------------
(* The request *)

Tokens == {"tokA", "tokB"}
TokenInputs == {UNDEFINED, ""} \cup Tokens

UnitIdInputs ==
    { <<>>, <<"1">>, <<"2">>, <<"3">>, <<"1", " ", "2">>, <<"2", " ", "1">>,
      <<" ", "1">>, <<"2", " ">>, <<"1", " ", " ", "2">> }

\* req.body: a field that is missing has hasUnitId = FALSE (accessToken: undefined)
Bodies ==
    { b \in [accessToken : TokenInputs, hasUnitId : BOOLEAN, unitId : UnitIdInputs] :
        b.hasUnitId \/ b.unitId = <<>> }

\* index.js:186  !accessToken || !unitId
RejectedTokenOnly(body) == body.accessToken \in {UNDEFINED, ""}
Rejected(body) ==
    \/ body.accessToken \in {UNDEFINED, ""}
    \/ ~body.hasUnitId
    \/ body.unitId = <<>>

\* Requests that arrive while a run is suspended
ConcurrentBodies ==
    { [accessToken |-> "tokA", hasUnitId |-> TRUE, unitId |-> <<"2">>],
      [accessToken |-> "tokB", hasUnitId |-> TRUE, unitId |-> <<"2">>],
      [accessToken |-> "tokB", hasUnitId |-> TRUE, unitId |-> <<>>],
      [accessToken |-> UNDEFINED, hasUnitId |-> TRUE, unitId |-> <<"2">>] }

\* accepted: the accessToken of the latest one that passed validation;
\* rejected: one was answered 400
NoSecond == [accepted |-> "none", rejected |-> FALSE]

\* index.js:186-190  the return of :187 comes before the assignment of :190
TokenAfterRejectAssigned(tok, body) == body.accessToken
TokenAfterReject(tok, body) == tok

\* index.js:28, :50, :95, :140, :164  'Authorization': ACCESS_TOKEN
AuthOfOwnRequest == request.accessToken
Auth == ACCESS_TOKEN

-----------------------------------------------------------------------------
(* The remote quiz service: what it holds *)

Keys == {"a", "b", "c", "d", "none"}

\* payload.topics of get-topics-unit/<unitId>
RemoteTopics(unitId) ==
    IF unitId = <<"1">> THEN
        << [id |-> 10, name |-> <<"a">>, contentFlag |-> FALSE],
           [id |-> 11, name |-> <<"R", "L", "-", "1">>, contentFlag |-> TRUE],
           [id |-> 12, name |-> <<"Q", " ", "2">>, contentFlag |-> TRUE] >>
    ELSE IF unitId = <<"2">> THEN
        << [id |-> 21, name |-> <<"g", "a", "n">>, contentFlag |-> TRUE] >>
    ELSE << >>

\* payload.quizId of create-quiz/<topicId>: not the topic id
QuizIdOf(topicId) == topicId + 100

QuestionIdOf(quizId, k) == quizId * 10 + k

\* index.js:103  quiz_Id is the payload's quizId, not the quizId parameter of
\* attemptOneQuiz (the topic id)
AttemptIdFromParameter(parameter, payloadQuizId) == parameter
AttemptId(parameter, payloadQuizId) == payloadQuizId

HasContent(t) == t.contentFlag

\* index.js:148-153  filter on contentFlag, map to {topicId, topicName}
EligibleTopics(payload) ==
    LET kept == SelectSeq(payload, HasContent)
    IN  [k \in 1..Len(kept) |-> [topicId |-> kept[k].id, topicName |-> kept[k].name]]

-----------------------------------------------------------------------------
(* Remote calls: what is sent *)

NoCall == [ep |-> "none", unit |-> <<>>, id |-> 0, questionId |-> 0,
           userAnswer |-> NULL, auth |-> NULL]

GetUnitTopicsCall(u, tok) == [NoCall EXCEPT !.ep = "getUnitTopics", !.unit = u, !.auth = tok]
ResultQuizCall(topicId, tok) == [NoCall EXCEPT !.ep = "resultQuiz", !.id = topicId, !.auth = tok]
CreateQuizCall(topicId, tok) == [NoCall EXCEPT !.ep = "createQuiz", !.id = topicId, !.auth = tok]
SaveCall(quizId, questionId, answer, tok) ==
    [NoCall EXCEPT !.ep = "saveAnswer", !.id = quizId, !.questionId = questionId,
                   !.userAnswer = answer, !.auth = tok]
GetScoreCall(quizId, tok) == [NoCall EXCEPT !.ep = "getScore", !.id = quizId, !.auth = tok]

RunCall(c) == [ep |-> c.ep, unit |-> c.unit, id |-> c.id]

NoResponse == [status |-> 0, logs |-> <<>>, text |-> ""]

-----------------------------------------------------------------------------
(* Where the orchestrator goes next: index.js:195-219 *)

\* index.js:216
Finish ==
    [pc |-> "idle", call |-> NoCall, unit |-> 0, topics |-> <<>>, topic |-> 0,
     response |-> [status |-> 200, logs |-> logs, text |-> "Processing complete"]]

\* index.js:217-219: the one catch of the handler
Abort(what) ==
    [pc |-> "idle", call |-> NoCall, unit |-> 0, topics |-> <<>>, topic |-> 0,
     response |-> [status |-> 500, logs |-> <<>>, text |-> what]]

\* index.js:195-196
NextUnit(us, u, tok) ==
    IF u < Len(us)
    THEN [pc |-> "getUnitTopics", call |-> GetUnitTopicsCall(us[u + 1], tok),
          unit |-> u + 1, topics |-> <<>>, topic |-> 0, response |-> NoResponse]
    ELSE Finish

\* The topics are taken from the last one backwards
NextTopicBackwards(us, u, ts, t, tok) ==
    IF t < Len(ts)
    THEN [pc |-> "resultQuiz", call |-> ResultQuizCall(ts[Len(ts) - t].topicId, tok),
          unit |-> u, topics |-> ts, topic |-> Len(ts) - t, response |-> NoResponse]
    ELSE NextUnit(us, u, tok)

\* index.js:202-203
NextTopic(us, u, ts, t, tok) ==
    IF t < Len(ts)
    THEN [pc |-> "resultQuiz", call |-> ResultQuizCall(ts[t + 1].topicId, tok),
          unit |-> u, topics |-> ts, topic |-> t + 1, response |-> NoResponse]
    ELSE NextUnit(us, u, tok)

Goto(c) ==
    /\ pc' = c.pc
    /\ call' = c.call
    /\ unit' = c.unit
    /\ topics' = c.topics
    /\ topic' = c.topic
    /\ response' = c.response
    /\ calls' = IF c.call.ep \in {"getUnitTopics", "resultQuiz"}
                THEN Append(calls, RunCall(c.call)) ELSE calls

\* index.js:205
ShouldSkipNever(d) == FALSE
ShouldSkip(d) == d

-----------------------------------------------------------------------------
(* Initial state: the server is listening, no request yet *)

NoQuiz ==
    /\ quiz_Id' = 0
    /\ questions' = <<>>
    /\ question' = 0
    /\ currentScore' = 0
    /\ content' = <<>>

NoProbe ==
    /\ score' = 0
    /\ i' = 0
    /\ correctOption' = NULL
    /\ submitted' = <<>>
    /\ readbacks' = <<>>
    /\ syncAtCall' = TRUE
    /\ threw' = FALSE

NoAttempt ==
    /\ remoteScore' = 0
    /\ correctKey' = "none"
    /\ credited' = FALSE
    /\ regraded' = FALSE

Init ==
    /\ ACCESS_TOKEN = "envTok"
    /\ logs = <<>>
    /\ second = NoSecond
    /\ request = [accessToken |-> UNDEFINED, hasUnitId |-> FALSE, unitId |-> <<>>]
    /\ response = NoResponse
    /\ pc = "idle"
    /\ call = NoCall
    /\ unitIds = <<>>
    /\ unit = 0
    /\ topics = <<>>
    /\ topic = 0
    /\ done = FALSE
    /\ quiz_Id = 0
    /\ questions = <<>>
    /\ question = 0
    /\ currentScore = 0
    /\ content = <<>>
    /\ score = 0
    /\ i = 0
    /\ correctOption = NULL
    /\ remoteScore = 0
    /\ correctKey = "none"
    /\ credited = FALSE
    /\ regraded = FALSE
    /\ console = <<>>
    /\ calls = <<>>
    /\ passed = <<>>
    /\ failed = "none"
    /\ submitted = <<>>
    /\ readbacks = <<>>
    /\ syncAtCall = TRUE
    /\ threw = FALSE

-----------------------------------------------------------------------------
(* Console lines: index.js:128, :206, :208, :210 *)

Line(kind, topicId, file) == [kind |-> kind, id |-> topicId, file |-> file]

\* Lines of the report: index.js:110 and :120
HeaderLine(questionId) == [tag |-> "Question ID", val |-> questionId, text |-> ""]
CorrectLine(c) == [tag |-> "Correct Option", val |-> 0, text |-> c]

-----------------------------------------------------------------------------
(* POST /: index.js:183-193 *)

PostReject(body) ==
    /\ pc = "idle"
    /\ Rejected(body)
    /\ request' = body
    /\ response' = [status |-> 400, logs |-> <<>>,
                    text |-> "Missing accessToken or unitId in request data."]
    /\ ACCESS_TOKEN' = TokenAfterReject(ACCESS_TOKEN, body)
    /\ second' = NoSecond
    /\ console' = <<>>
    /\ calls' = <<>>
    /\ passed' = <<>>
    /\ failed' = "none"
    /\ UNCHANGED <<logs, pc, call, loopVars, quizVars, probeVars, remoteVars>>

PostAccept(body) ==
    /\ pc = "idle"
    /\ ~Rejected(body)
    /\ request' = body
    /\ ACCESS_TOKEN' = body.accessToken
    /\ LET ids == Split(body.unitId)
           first == GetUnitTopicsCall(ids[1], body.accessToken)
       IN  /\ unitIds' = ids
           /\ unit' = 1
           /\ pc' = "getUnitTopics"
           /\ call' = first
           /\ calls' = <<RunCall(first)>>
    /\ topics' = <<>>
    /\ topic' = 0
    /\ response' = NoResponse
    /\ second' = NoSecond
    /\ console' = <<>>
    /\ passed' = <<>>
    /\ failed' = "none"
    /\ UNCHANGED <<logs, done, quizVars, probeVars, remoteVars>>

\* A request arrives while the run waits for a call (or for writeFile) and is
\* rejected by index.js:186-188
Suspended == pc \in {"getUnitTopics", "resultQuiz", "createQuiz", "saveAnswer",
                     "getScore", "writeFile"}

ConcurrentReject(body) ==
    /\ Suspended
    /\ Rejected(body)
    /\ ACCESS_TOKEN' = TokenAfterReject(ACCESS_TOKEN, body)
    /\ second' = [second EXCEPT !.rejected = TRUE]
    /\ UNCHANGED <<logs, request, response, pc, call, loopVars, quizVars, probeVars,
                   remoteVars, histVars>>

\* A request arrives while the run waits and passes validation: index.js:190.
\* Its own run shares nothing else with the suspended one and is left out.
ConcurrentAccept(body) ==
    /\ Suspended
    /\ ~Rejected(body)
    /\ ACCESS_TOKEN' = body.accessToken
    /\ second' = [second EXCEPT !.accepted = body.accessToken]
    /\ UNCHANGED <<logs, request, response, pc, call, loopVars, quizVars, probeVars,
                   remoteVars, histVars>>

-----------------------------------------------------------------------------
(* getUnitTopics settles: index.js:136-158, :196-203 *)

GetUnitTopicsOk ==
    /\ pc = "getUnitTopics"
    /\ Goto(NextTopic(unitIds, unit, EligibleTopics(RemoteTopics(call.unit)), 0,
                      Auth))
    /\ UNCHANGED <<procVars, request, unitIds, done, quizVars, probeVars, remoteVars,
                   console, passed, failed>>

\* The failure is swallowed and the next unit is listed
GetUnitTopicsFailSkipsUnit ==
    /\ pc = "getUnitTopics"
    /\ Goto(NextUnit(unitIds, unit, Auth))
    /\ failed' = "getUnitTopics"
    /\ UNCHANGED <<procVars, request, unitIds, done, quizVars, probeVars, remoteVars,
                   console, passed>>

GetUnitTopicsFail ==
    /\ pc = "getUnitTopics"
    /\ Goto(Abort("getUnitTopics"))
    /\ failed' = "getUnitTopics"
    /\ UNCHANGED <<procVars, request, unitIds, done, quizVars, probeVars, remoteVars,
                   console, passed>>

-----------------------------------------------------------------------------
(* resultQuiz settles: index.js:160-177, :203-209 *)

ResultQuizOk(badge) ==
    /\ pc = "resultQuiz"
    /\ done' = badge
    /\ passed' = IF badge THEN Append(passed, topics[topic].topicId) ELSE passed
    /\ IF ShouldSkip(badge)
       THEN /\ console' = Append(console, Line("done", topics[topic].topicId, <<>>))
            /\ Goto(NextTopic(unitIds, unit, topics, topic, Auth))
       ELSE /\ console' = Append(console, Line("solving", topics[topic].topicId, <<>>))
            /\ pc' = "createQuiz"
            /\ call' = CreateQuizCall(topics[topic].topicId, Auth)
            /\ calls' = Append(calls, RunCall(call'))
            /\ UNCHANGED <<unit, topics, topic, response>>
    /\ UNCHANGED <<procVars, request, unitIds, quizVars, probeVars, remoteVars, failed>>

ResultQuizFail ==
    /\ pc = "resultQuiz"
    /\ Goto(Abort("resultQuiz"))
    /\ failed' = "resultQuiz"
    /\ UNCHANGED <<procVars, request, unitIds, done, quizVars, probeVars, remoteVars,
                   console, passed>>

-----------------------------------------------------------------------------
(* attemptOneQuiz: index.js:89-135 *)

\* index.js:109-118 for the question at position q of qs, or :124-127 past the
\* last one.  cs is the running score, cont the report so far.
BeginQuestion(qs, q, cs, cont, quizId) ==
    IF q <= Len(qs)
    THEN /\ question' = q
         /\ currentScore' = cs
         /\ content' = Append(cont, HeaderLine(qs[q]))
         /\ score' = cs
         /\ i' = 0
         /\ correctOption' = NULL
         /\ threw' = FALSE
         /\ readbacks' = <<>>
         /\ submitted' = <<OptionAt(0)>>
         /\ pc' = "saveAnswer"
         /\ call' = SaveCall(quizId, qs[q], OptionAt(0), Auth)
    ELSE /\ question' = 0
         /\ currentScore' = cs
         /\ content' = cont
         /\ NoProbe
         /\ pc' = "writeFile"
         /\ call' = NoCall

\* The remote service starts grading the question at position q
RemoteQuestion(qs, q, cs, rs) ==
    IF q <= Len(qs)
    THEN /\ \E k \in Keys : correctKey' = k
         /\ credited' = FALSE
         /\ syncAtCall' = (cs = rs)
    ELSE /\ correctKey' = "none"
         /\ credited' = FALSE

CreateQuizOk(n) ==
    /\ pc = "createQuiz"
    /\ LET quizId == AttemptId(call.id, QuizIdOf(call.id))
           qs == [k \in 1..n |-> QuestionIdOf(QuizIdOf(call.id), k)]
       IN  /\ quiz_Id' = quizId
           /\ questions' = qs
           /\ remoteScore' = 0
           /\ regraded' = FALSE
           /\ BeginQuestion(qs, 1, 0, <<>>, quizId)
           /\ RemoteQuestion(qs, 1, 0, 0)
    /\ UNCHANGED <<procVars, request, response, loopVars, histVars>>

CreateQuizFail ==
    /\ pc = "createQuiz"
    /\ Goto(Abort("createQuiz"))
    /\ failed' = "createQuiz"
    /\ UNCHANGED <<procVars, request, unitIds, done, quizVars, probeVars, remoteVars,
                   console, passed>>

\* attemptQuiz has returned {score, correctOption}: index.js:118-121, then the
\* next question or the report file
RunnerResume ==
    /\ pc = "attemptQuizReturn"
    /\ BeginQuestion(questions, question + 1, score,
                     Append(content, CorrectLine(OrNotLocked(correctOption))), quiz_Id)
    /\ RemoteQuestion(questions, question + 1, score, remoteScore)
    /\ UNCHANGED <<procVars, request, response, loopVars, quiz_Id, questions,
                   remoteScore, regraded, histVars>>

FileName == Sanitize(topics[topic].topicName)

\* index.js:127-130, :210
WriteFileOk ==
    /\ pc = "writeFile"
    /\ console' = console \o << Line("saved", topics[topic].topicId, FileName),
                                Line("finished", topics[topic].topicId, <<>>) >>
    /\ Goto(NextTopic(unitIds, unit, topics, topic, Auth))
    /\ NoQuiz
    /\ NoAttempt
    /\ UNCHANGED <<procVars, request, unitIds, done, probeVars, passed, failed>>

WriteFileFail ==
    /\ pc = "writeFile"
    /\ Goto(Abort("writeFile"))
    /\ failed' = "writeFile"
    /\ NoQuiz
    /\ NoAttempt
    /\ UNCHANGED <<procVars, request, unitIds, done, probeVars, console, passed>>

-----------------------------------------------------------------------------
(* attemptQuiz and attemptQuizApi: index.js:44-87 *)

\* save-user-quiz-answer is accepted.  An answer that replaces a credited one
\* is regraded by the service or ignored by it.
SaveAnswerOk ==
    /\ pc = "saveAnswer"
    /\ IF call.userAnswer = correctKey
       THEN /\ remoteScore' = IF credited THEN remoteScore ELSE remoteScore + 1
            /\ credited' = TRUE
            /\ UNCHANGED regraded
       ELSE \/ /\ credited
               /\ remoteScore' = remoteScore - 1
               /\ credited' = FALSE
               /\ regraded' = TRUE
            \/ UNCHANGED <<remoteScore, credited, regraded>>
    /\ pc' = "getScore"
    /\ call' = GetScoreCall(quiz_Id, Auth)
    /\ UNCHANGED <<procVars, request, response, loopVars, quizVars, probeVars,
                   correctKey, histVars>>

\* The failure leaves attemptQuiz and attemptOneQuiz
SaveAnswerFailPropagates ==
    /\ pc = "saveAnswer"
    /\ Goto(Abort("saveAnswer"))
    /\ failed' = "saveAnswer"
    /\ UNCHANGED <<procVars, request, unitIds, done, quizVars, probeVars, remoteVars,
                   console, passed>>

\* index.js:60-62, :79-82, :86
SaveAnswerFail ==
    /\ pc = "saveAnswer"
    /\ threw' = TRUE
    /\ pc' = "attemptQuizReturn"
    /\ call' = NoCall
    /\ UNCHANGED <<procVars, request, response, loopVars, quizVars, score, i,
                   correctOption, submitted, readbacks, syncAtCall, remoteVars, histVars>>

\* index.js:37, :59, :74-78, :83, :72
GetScoreOk ==
    /\ pc = "getScore"
    /\ score' = remoteScore
    /\ readbacks' = Append(readbacks, remoteScore)
    /\ i' = i + 1
    /\ IF IsLocked(remoteScore, currentScore)
       THEN /\ correctOption' = OptionAt(i)
            /\ pc' = "attemptQuizReturn"
            /\ call' = NoCall
            /\ UNCHANGED submitted
       ELSE /\ i + 1 < MaxTries
            /\ UNCHANGED correctOption
            /\ pc' = "saveAnswer"
            /\ call' = SaveCall(quiz_Id, questions[question], OptionAt(i + 1), Auth)
            /\ submitted' = Append(submitted, OptionAt(i + 1))
    /\ UNCHANGED <<procVars, request, response, loopVars, quizVars, syncAtCall, threw,
                   remoteVars, histVars>>

\* index.js:38-41, :60-62, :79-82, :86
GetScoreFail ==
    /\ pc = "getScore"
    /\ threw' = TRUE
    /\ pc' = "attemptQuizReturn"
    /\ call' = NoCall
    /\ UNCHANGED <<procVars, request, response, loopVars, quizVars, score, i,
                   correctOption, submitted, readbacks, syncAtCall, remoteVars, histVars>>

-----------------------------------------------------------------------------

Next ==
    \/ \E body \in Bodies : PostReject(body)
    \/ \E body \in Bodies : PostAccept(body)
    \/ \E body \in ConcurrentBodies : ConcurrentReject(body)
    \/ \E body \in ConcurrentBodies : ConcurrentAccept(body)
    \/ GetUnitTopicsOk
    \/ GetUnitTopicsFail
    \/ \E badge \in BOOLEAN : ResultQuizOk(badge)
    \/ ResultQuizFail
    \/ \E n \in 0..MaxQuestions : CreateQuizOk(n)
    \/ CreateQuizFail
    \/ RunnerResume
    \/ WriteFileOk
    \/ WriteFileFail
    \/ SaveAnswerOk
    \/ SaveAnswerFail
    \/ GetScoreOk
    \/ GetScoreFail

Spec == Init /\ [][Next]_vars

-----------------------------------------------------------------------------
(* Properties *)

InProbe == pc \in {"saveAnswer", "getScore", "attemptQuizReturn"}
Returned == pc = "attemptQuizReturn"
RunEnded == pc = "idle" /\ response.status \in {200, 500}

IsCreate(c) == c.ep = "createQuiz"
IsResultQuiz(c) == c.ep = "resultQuiz"
IsSaved(l) == l.kind = "saved"
IsSkip(l) == l.kind = "done"
IsAnswered(l) == l.kind \in {"done", "solving"}

CreateCalls == SelectSeq(calls, IsCreate)
Written == SelectSeq(console, IsSaved)
Range(f) == {f[k] : k \in DOMAIN f}

\* C1: for a question with exactly one correct option among a, b, c, d, probed
\* with currentScore equal to the remote score and without a failing call,
\* attemptQuiz returns that option as correctOption and score = currentScore + 1.
C1_LocksCorrectOption ==
    (Returned /\ syncAtCall /\ ~threw /\ correctKey \in Range(options))
        => (correctOption = correctKey /\ score = currentScore + 1)

C1_Witness ==
    /\ Returned /\ syncAtCall /\ ~threw
    /\ correctKey = "d" /\ correctOption = "d"
    /\ currentScore = 1 /\ score = 2

\* C2: while no call has failed and every readback has stayed at currentScore,
\* attemptQuiz issues at most four submissions, and after the fourth readback
\* it has returned score = currentScore with no locked option.
C2_StopsAfterFourOptions ==
    (InProbe /\ ~threw /\ \A k \in DOMAIN readbacks : readbacks[k] = currentScore)
        => /\ Len(submitted) <= Len(options)
           /\ Len(readbacks) = Len(options)
                => (Returned /\ score = currentScore /\ correctOption = NULL)

\* C3: when a remote call failed while attemptQuiz was trying its k-th
\* candidate, k in 1..4, attemptQuiz returns no locked option and a score
\* equal to the currentScore it was called with.
C3_FailureReturnsCurrentScore ==
    (Returned /\ threw /\ Len(submitted) \in 1..Len(options))
        => (correctOption = NULL /\ score = currentScore)

\* C4: when no call fails and the correct option is the k-th of a, b, c, d,
\* attemptQuiz has issued exactly the first k options, in order, and returns
\* the score read back after the last of them.
C4_ExactlyKSubmissions ==
    (Returned /\ ~threw /\ correctKey \in Range(options))
        => /\ \E k \in 1..Len(options) :
                /\ options[k] = correctKey
                /\ submitted = SubSeq(options, 1, k)
                /\ Len(readbacks) = k
           /\ score = readbacks[Len(readbacks)]

RECURSIVE ExpectedQueries(_)
ExpectedQueries(us) ==
    IF us = <<>> THEN <<>>
    ELSE LET ts == EligibleTopics(RemoteTopics(Head(us)))
         IN  [k \in 1..Len(ts) |-> ts[k].topicId] \o ExpectedQueries(Tail(us))

QueriedTopics ==
    LET qs == SelectSeq(calls, IsResultQuiz)
    IN  [k \in 1..Len(qs) |-> qs[k].id]

\* C5: a run that ended without a failure of listing topics or of a completion
\* query (so at most with failures inside attemptOneQuiz) has queried every
\* eligible topic of every unit of the request, in order.
C5_TopicFailureDoesNotEndRun ==
    (RunEnded /\ response.text \notin {"getUnitTopics", "resultQuiz"})
        => QueriedTopics = ExpectedQueries(unitIds)

\* C6: whenever attemptQuiz is probing a question, the currentScore it was
\* called with was the remote service's score at the moment of the call.
C6_CurrentScoreInSync == InProbe => syncAtCall

\* C7: a create-attempt call is outstanding only for a topic whose completion
\* query returned not passed; the create-attempt calls of a run are as many as
\* the queries answered not passed, and no more reports are written than that:
\* none at all when every answered query said passed.
C7_NoAttemptForPassedTopic ==
    /\ call.ep = "createQuiz" => (~done /\ call.id = topics[topic].topicId)
    /\ Len(CreateCalls) + Len(passed) = Len(SelectSeq(console, IsAnswered))
    /\ Len(Written) <= Len(CreateCalls)

C7_Witness ==
    /\ pc = "idle" /\ response.status = 200
    /\ passed = <<11, 12, 21>>
    /\ CreateCalls = <<>> /\ Written = <<>>

\* C8: a completed run over the unit with two eligible topics, one passed and
\* one not, has created exactly one attempt, for the topic not passed, and the
\* logs of its response hold exactly one skip entry.
C8_OneRunOneSkipLogged ==
    (pc = "idle" /\ response.status = 200 /\ unitIds = << <<"1">> >> /\ Len(passed) = 1)
        => /\ Len(CreateCalls) = 1
           /\ CreateCalls[1].id \notin Range(passed)
           /\ Len(SelectSeq(response.logs, IsSkip)) = 1

\* C9: the report handed to writeFile for an attempt with N questions is N
\* blocks, the k-th headed by the k-th question's id and closed by a
\* "Correct Option" line holding a, b, c, d or "Not locked".
C9_ReportHasOneBlockPerQuestion ==
    pc = "writeFile"
        => /\ Len(content) = 2 * Len(questions)
           /\ \A k \in 1..Len(questions) :
                /\ content[2 * k - 1] = HeaderLine(questions[k])
                /\ content[2 * k].tag = "Correct Option"
                /\ content[2 * k].text \in Range(options) \cup {"Not locked"}

C9_Witness ==
    /\ pc = "writeFile"
    /\ Len(questions) = 2
    /\ content[2].text = "Not locked"
    /\ content[4].text = "b"

\* C10: once a request without a (non-empty) accessToken or unitId has been
\* received, it is answered with status 400 and no remote call is issued for it.
C10_InvalidRequestRejected ==
    ( /\ pc # "idle" \/ response.status # 0
      /\ \/ request.accessToken \in {UNDEFINED, ""}
         \/ ~request.hasUnitId
         \/ request.unitId = <<>> )
        => /\ pc = "idle"
           /\ response.status = 400
           /\ call = NoCall
           /\ calls = <<>>

C10_Witness ==
    /\ response.status = 400
    /\ request.accessToken = "tokA"
    /\ request.hasUnitId /\ request.unitId = <<>>
    /\ ACCESS_TOKEN = "tokB"

IsList(c) == c.ep = "getUnitTopics"
ListCalls == SelectSeq(calls, IsList)

\* C11: once listing the topics of a unit has failed, the run is over with a
\* 500 response and the failed listing is the last call issued for the request:
\* nothing for that unit's topics, nothing for a later unit.
C11_ListingFailureAbortsRun ==
    failed = "getUnitTopics"
        => /\ pc = "idle"
           /\ call = NoCall
           /\ response.status = 500
           /\ calls[Len(calls)] =
                [ep |-> "getUnitTopics", unit |-> unitIds[Len(ListCalls)], id |-> 0]

C11_Witness ==
    /\ failed = "getUnitTopics"
    /\ unitIds = << <<"1">>, <<"2">> >>
    /\ Len(calls) = 1
    /\ response.status = 500

\* C12: an option that attemptQuiz returns as locked is the correct option of
\* the question on the remote service.
C12_NoFalseLocks ==
    (Returned /\ correctOption # NULL) => correctOption = correctKey

\* C13: a failure of a save or readback call leaves the run inside the probe
\* (no response is sent, attemptOneQuiz does not throw); after a probe that
\* threw, the runner appends "Not locked" for the question and goes on with
\* the next question, or with writing the report after the last one.
C13_ProbeFailureAbortsOnlyTheProbe ==
    [][ /\ pc \in {"saveAnswer", "getScore"}
            => /\ pc' \in {"saveAnswer", "getScore", "attemptQuizReturn"}
               /\ response' = response
               /\ failed' = failed
        /\ (pc = "attemptQuizReturn" /\ threw)
            => /\ SubSeq(content', 1, Len(content) + 1)
                    = Append(content, CorrectLine("Not locked"))
               /\ response' = response
               /\ IF question < Len(questions)
                  THEN /\ pc' = "saveAnswer"
                       /\ question' = question + 1
                       /\ call'.questionId = questions[question + 1]
                  ELSE pc' = "writeFile"
      ]_vars

C13_Witness ==
    /\ pc = "getScore"
    /\ question = 2
    /\ content[2] = CorrectLine("Not locked")
    /\ response = NoResponse

RemoteEps == {"getUnitTopics", "resultQuiz", "createQuiz", "saveAnswer", "getScore"}

RECURSIVE SinceLastList(_)
SinceLastList(cs) ==
    IF cs = <<>> \/ cs[Len(cs)].ep = "getUnitTopics" THEN <<>>
    ELSE Append(SinceLastList(SubSeq(cs, 1, Len(cs) - 1)), cs[Len(cs)])

IsHeader(l) == l.tag = "Question ID"

\* C14: exactly the call named by pc is outstanding, and none between calls;
\* the units listed so far are the first units of the request in the order
\* given; the topics queried for the current unit are its first topics in the
\* order listed; the questions taken up so far are the first questions of the
\* attempt in the order given, and a save call is for the current one.
C14_OneCallAtATimeInOrder ==
    /\ IF pc \in RemoteEps THEN call.ep = pc ELSE call = NoCall
    /\ [k \in 1..Len(ListCalls) |-> ListCalls[k].unit]
            = SubSeq(unitIds, 1, Len(ListCalls))
    /\ pc # "idle"
        => /\ unit = Len(ListCalls)
           /\ LET qs == SelectSeq(SinceLastList(calls), IsResultQuiz)
              IN  [k \in 1..Len(qs) |-> qs[k].id]
                    = [k \in 1..topic |-> topics[k].topicId]
    /\ InProbe
        => LET hs == SelectSeq(content, IsHeader)
           IN  [k \in 1..Len(hs) |-> hs[k].val] = SubSeq(questions, 1, question)
    /\ call.ep = "saveAnswer" => call.questionId = questions[question]

C14_Witness ==
    /\ pc = "saveAnswer"
    /\ unitIds = << <<"1">>, <<"2">> >>
    /\ unit = 2
    /\ question = 2
    /\ Len(SelectSeq(calls, IsCreate)) = 3

\* C15: a request that passes validation while the run is suspended puts its
\* accessToken in ACCESS_TOKEN, and every call the run issues after that
\* carries that token.
C15_SecondCredentialTakesOver ==
    [][ /\ (second'.accepted # second.accepted /\ second'.accepted # "none")
            => ACCESS_TOKEN' = second'.accepted
        /\ (second.accepted # "none" /\ second' = second
                /\ call' # call /\ call'.ep # "none")
            => call'.auth = second.accepted
      ]_vars

C15_Witness ==
    /\ request.accessToken = "tokA"
    /\ second.accepted = "tokB"
    /\ call.ep = "saveAnswer"
    /\ call.auth = "tokB"

\* C16: the answers submitted for a question are keys among a, b, c, d, no key
\* twice, so at most four.
C16_OnlyTheFourKeysSubmitted ==
    InProbe
        => /\ Range(submitted) \subseteq Range(options)
           /\ Len(submitted) <= Len(options)
           /\ Cardinality(Range(submitted)) = Len(submitted)

\* C17: every save and readback call carries the quizId of the create-attempt
\* response for the current topic, which is also quiz_Id, and never the topic id.
C17_ProbeCallsUseAttemptId ==
    call.ep \in {"saveAnswer", "getScore"}
        => /\ call.id = QuizIdOf(topics[topic].topicId)
           /\ call.id = quiz_Id
           /\ call.id # topics[topic].topicId

C17_Witness ==
    /\ call.ep = "getScore"
    /\ question = 2
    /\ topics[topic].topicId = 12
    /\ call.id = 112

\* C18: every unit identifier sent to the list-topics call is a non-empty string.
C18_UnitIdsNonEmpty == call.ep = "getUnitTopics" => Len(call.unit) > 0

IsLock(l) == l.tag = "Correct Option" /\ l.text # "Not locked"

\* C19: as long as the remote score of the attempt has not gone down, the
\* score a probe returns is not below the currentScore it was called with, and
\* when the report is written currentScore (the finalScore) is the number of
\* questions with a locked option.
C19_FinalScoreCountsLocks ==
    ~regraded
        => /\ Returned => score >= currentScore
           /\ pc = "writeFile" => currentScore = Len(SelectSeq(content, IsLock))

\* C20: ACCESS_TOKEN is left as it was by a request answered 400, whether it
\* arrives between runs or while a run is suspended, and the outstanding call is
\* untouched; ACCESS_TOKEN changes only to the accessToken of a request that
\* passed validation.
C20_RejectedRequestKeepsCredential ==
    [][ /\ (response'.status = 400 /\ (response.status # 400 \/ request' # request))
            => ACCESS_TOKEN' = ACCESS_TOKEN
        /\ (second'.rejected /\ ~second.rejected)
            => (ACCESS_TOKEN' = ACCESS_TOKEN /\ call' = call)
        /\ ACCESS_TOKEN' # ACCESS_TOKEN
            => \/ /\ pc' = "getUnitTopics"
                  /\ request'.accessToken = ACCESS_TOKEN'
                  /\ ACCESS_TOKEN' \in Tokens
               \/ /\ second'.accepted = ACCESS_TOKEN'
                  /\ ACCESS_TOKEN' \in Tokens
      ]_vars

C20_Witness ==
    /\ second = [accepted |-> "none", rejected |-> TRUE]
    /\ request.accessToken = "tokA"
    /\ ACCESS_TOKEN = "tokA"
    /\ call.ep = "getScore"
    /\ call.auth = "tokA"

====
